---- MODULE Spec2Model ----
(***************************************************************************)
(* Task-list backend (Express + Prisma): the auth endpoints                *)
(* (POST /auth/register, POST /auth/login), the verifyAuth middleware and  *)
(* the four task endpoints, over the users and tasks tables.               *)
(*                                                                         *)
(* Every `await` of a handler is a step of its own, so a request record    *)
(* carries the position (pc) of its handler between store round-trips.     *)
(* Text that a schema inspects character by character (username, password) *)
(* is a sequence of one-character strings; ids, titles and descriptions    *)
(* are strings.  A body field or path parameter is read from the request   *)
(* at the step of the handler that parses it.                              *)
(***************************************************************************)
EXTENDS Integers, Sequences, FiniteSets, TLC

VARIABLES users, tasks, nextUid, nextTid, now, procUp, reqs, createdFor, ret,
          keys, page

vars == <<users, tasks, nextUid, nextTid, now, procUp, reqs, createdFor, ret,
         keys, page>>

-----------------------------------------------------------------------------
(* Bounds of the model *)

\* task rows ever created
MaxTasks == 2
\* last instant of the clock (one unit = one hour)
MaxTime == 1
\* fetch calls of the Tasks page awaiting their response at one time
MaxPending == 1

(* Program constants *)

\* expiresIn: '1h'
TokenTTL == 1
\* bcrypt.hash(password, 10)
BcryptRounds == 10
UsernameMin == 3
UsernameMax == 30
PasswordMin == 8
PasswordMax == 100

-----------------------------------------------------------------------------
(* Values *)

\* a JSON field, header or path parameter that is not there
Undefined == "undefined"
\* the same for a field that holds text inspected by character
NoText == <<"undefined">>

Lower == {"a","b","c","d","e","f","g","h","i","j","k","l","m",
          "n","o","p","q","r","s","t","u","v","w","x","y","z"}
Upper == {"A","B","C","D","E","F","G","H","I","J","K","L","M",
          "N","O","P","Q","R","S","T","U","V","W","X","Y","Z"}
Digit == {"0","1","2","3","4","5","6","7","8","9"}
\* the character class [!@#$%^&*(),.?":{}|<>]
Special == {"!","@","#","$","%","^","&","*","(",")",",",".","?","\"",
            ":","{","}","|","<",">"}

Range(s) == {s[i] : i \in 1..Len(s)}

\* uuid(): the n-th identifier generated for a table
Uuid(tag, n) == "uuid-" \o tag \o ToString(n)
\* the strings that z.string().uuid() accepts, among those the model sends
WellFormedIds == {Uuid("u", n) : n \in 0..2} \cup {Uuid("t", n) : n \in 0..(MaxTasks + 1)}
\* a well-formed id that no row ever has
GhostUser == Uuid("u", 0)
GhostTask == Uuid("t", 0)

-----------------------------------------------------------------------------
(* Request inputs the model draws from *)

\* a text of n characters c
Repeat(c, n) == [i \in 1..n |-> c]

Ann == <<"a","n","n">>
Bob == <<"b","o","b">>
\* too short, outside the character set, too long, missing
Usernames == {Ann, Bob, <<"a","b">>, <<"a","-","b">>,
              Repeat("a", UsernameMax + 1), NoText}

\* passes registerSchema and authenticateSchema
GoodPw == <<"P","a","s","s","w","0","r","d","!">>
\* passes authenticateSchema only (no digit, special or uppercase character)
PlainPw == <<"p","a","s","s","w","o","r","d">>
\* too short, too long (with every character class), missing
Passwords == {GoodPw, PlainPw, <<"P","w","1","!">>,
              GoodPw \o Repeat("x", PasswordMax), NoText}

Titles == {Undefined, "", "Buy milk"}
Descriptions == {Undefined, "2 litres"}
Flags == {Undefined, "true"}

BlankBody == [username |-> NoText, password |-> NoText, userId |-> Undefined,
              title |-> Undefined, description |-> Undefined,
              isComplete |-> Undefined]

-----------------------------------------------------------------------------
(* shared/src: the zod schemas.  Each is TRUE when parse() returns and     *)
(* FALSE when it throws a ZodError.                                        *)

IsText(v) == v # NoText
IsString(v) == v # Undefined

UsernameOk(u) ==
    /\ IsText(u)
    /\ Len(u) >= UsernameMin
    /\ Len(u) <= UsernameMax
    /\ Range(u) \subseteq (Lower \cup Upper \cup Digit \cup {"_"})

\* the first registerSchema: z.string() for both fields
registerSchemaAnyString(body) == IsText(body.username) /\ IsText(body.password)

registerSchema(body) ==
    /\ UsernameOk(body.username)
    /\ IsText(body.password)
    /\ Len(body.password) >= PasswordMin
    /\ Len(body.password) <= PasswordMax
    /\ Range(body.password) \cap Digit # {}
    /\ Range(body.password) \cap Special # {}
    /\ Range(body.password) \cap Upper # {}
    /\ Range(body.password) \cap Lower # {}

authenticateSchema(body) ==
    /\ UsernameOk(body.username)
    /\ IsText(body.password)
    /\ Len(body.password) >= PasswordMin
    /\ Len(body.password) <= PasswordMax

getTasksSchema(body) == IsString(body.userId)

createTaskSchema(body) ==
    /\ IsString(body.userId)
    /\ IsString(body.title)

updateTaskSchema(body) == IsString(body.title)

updateTaskParamsSchema(id) == IsString(id) /\ id \in WellFormedIds

\* the id checked with z.string() alone
deleteTaskSchemaAnyString(id) == IsString(id)

deleteTaskSchema(id) == IsString(id) /\ id \in WellFormedIds

-----------------------------------------------------------------------------
(* bcrypt and jsonwebtoken *)

Salts == {"salt"}

bcryptHash(plain, salt) ==
    [rounds |-> BcryptRounds, salt |-> salt, of |-> plain]

bcryptCompare(plain, hash) == hash.of = plain

\* signJwt with an expiry that has passed when the token is handed out
signJwtExpired(user, t) ==
    [sub |-> user.id, alg |-> "RS256", key |-> "private.pem", iat |-> t,
     exp |-> t]

\* signJwt: jwt.sign({sub}, privateKey, {algorithm: 'RS256', expiresIn: '1h'})
signJwt(user, t) ==
    [sub |-> user.id, alg |-> "RS256", key |-> "private.pem", iat |-> t,
     exp |-> t + TokenTTL]

\* jwt.verify with {ignoreExpiration: true}
jwtVerifyIgnoreExpiration(token, t) ==
    /\ token.alg = "RS256"
    /\ token.key = "private.pem"

\* jwt.verify without its algorithms option: an HMAC keyed with the public
\* key passes as well
jwtVerifyAnyAlgorithm(token, t) ==
    /\ \/ token.alg = "RS256" /\ token.key = "private.pem"
       \/ token.alg = "HS256" /\ token.key = "public.pem"
    /\ t < token.exp

\* jwt.decode in the place of jwt.verify: the signature is not checked
jwtDecodeOnly(token, t) == t < token.exp

\* jwt.verify(token, publicKey, {algorithms: ['RS256']}) returns the payload;
\* FALSE here is the JsonWebTokenError / TokenExpiredError it throws
jwtVerify(token, t) ==
    /\ token.alg = "RS256"
    /\ token.key = "private.pem"
    /\ t < token.exp

\* tokens nobody signed with the private key: a foreign RSA key, an HMAC
\* keyed with the public key, and a string that is no JWT
ForgedTokens(t) ==
    { [sub |-> Uuid("u", 1), alg |-> "RS256", key |-> "attacker.pem",
       iat |-> t, exp |-> t + TokenTTL],
      [sub |-> Uuid("u", 1), alg |-> "HS256", key |-> "public.pem",
       iat |-> t, exp |-> t + TokenTTL],
      [sub |-> Undefined, alg |-> "none", key |-> "", iat |-> 0, exp |-> 0] }

\* what a client can send as Authorization: a token the server signed for a
\* stored user at some instant up to now, or a forged one
Tokens == {signJwt(u, t) : u \in users, t \in 0..now} \cup ForgedTokens(now)

-----------------------------------------------------------------------------
(* prisma: the users and tasks tables.  A lookup returns the set of rows    *)
(* found (empty for null); a write that the database refuses throws.        *)

Null == "null"

userFindUnique(us, field, value) == {u \in us : u[field] = value}

\* @unique on username: create throws P2002 when the name is taken
userCreateThrows(us, username) == \E u \in us : u.username = username

userRow(n, username, hashed) ==
    [id |-> Uuid("u", n), username |-> username, password |-> hashed]

\* findMany without its where clause
taskFindManyAll(ts, userId) == ts

taskFindMany(ts, userId) == {t \in ts : t.userId = userId}

\* the tasks table without the relation to users
taskCreateNoForeignKey(us, userId) == FALSE

\* the foreign key tasks.userId -> users.id: create throws P2003 otherwise
taskCreateThrows(us, userId) == ~(\E u \in us : u.id = userId)

\* description String? is stored as null when not given, isComplete
\* defaults to false
taskRow(n, userId, title, description) ==
    [id |-> Uuid("t", n), title |-> title,
     description |-> IF IsString(description) THEN description ELSE Null,
     isComplete |-> FALSE, userId |-> userId]

\* a JavaScript value handed to prisma as `data`
JsString(s) == [js |-> "string", val |-> s]
JsObject(o) == [js |-> "object", val |-> o]

\* update throws when `data` is no object (validation) or no row has the id
taskUpdateThrows(ts, id, data) ==
    \/ data.js # "object"
    \/ ~(\E t \in ts : t.id = id)

\* an update whose data also carries a userId (here that of no stored user)
patchedWithOwner(t, o) ==
    [t EXCEPT
       !.title = IF IsString(o.title) THEN o.title ELSE @,
       !.description = IF IsString(o.description) THEN o.description ELSE @,
       !.isComplete = IF IsString(o.isComplete) THEN o.isComplete = "true" ELSE @,
       !.userId = GhostUser]

\* an update that writes every column, the ones absent from the data too
patchedAllFields(t, o) ==
    [t EXCEPT !.title = o.title, !.description = o.description,
              !.isComplete = (o.isComplete = "true")]

\* the row after the fields present in the data were written
patched(t, o) ==
    [t EXCEPT
       !.title = IF IsString(o.title) THEN o.title ELSE @,
       !.description = IF IsString(o.description) THEN o.description ELSE @,
       !.isComplete = IF IsString(o.isComplete) THEN o.isComplete = "true" ELSE @]

taskUpdate(ts, id, data) ==
    {IF t.id = id THEN patched(t, data.val) ELSE t : t \in ts}

\* the message of the error (P2025) that update and delete throw when no
\* row has the id
recordNotFound(op) == "Record to " \o op \o " not found."

taskDeleteThrows(ts, id) == ~(\E t \in ts : t.id = id)

\* deleteMany with no where clause
taskDeleteEveryRow(ts, id) == {}

taskDelete(ts, id) == {t \in ts : t.id # id}

-----------------------------------------------------------------------------
(* services/task.service.ts: each returns [threw, tasks, rows], the table   *)
(* afterwards and the rows handed back                                      *)

getTasksService(ts, userId) == taskFindMany(ts, userId)

createTaskService(us, ts, n, userId, title, description) ==
    IF taskCreateThrows(us, userId)
    THEN [threw |-> TRUE, tasks |-> ts, rows |-> {}]
    ELSE [threw |-> FALSE,
          tasks |-> ts \cup {taskRow(n, userId, title, description)},
          rows |-> {taskRow(n, userId, title, description)}]

updateTaskService(ts, taskId, updates) ==
    IF taskUpdateThrows(ts, taskId, updates)
    THEN [threw |-> TRUE, tasks |-> ts, rows |-> {}]
    ELSE [threw |-> FALSE, tasks |-> taskUpdate(ts, taskId, updates),
          rows |-> {t \in taskUpdate(ts, taskId, updates) : t.id = taskId}]

deleteTaskService(ts, taskId) ==
    IF taskDeleteThrows(ts, taskId)
    THEN [threw |-> TRUE, tasks |-> ts, rows |-> {}]
    ELSE [threw |-> FALSE, tasks |-> taskDelete(ts, taskId),
          rows |-> {t \in ts : t.id = taskId}]

-----------------------------------------------------------------------------
(* Requests *)

ReqIds == {"r1"}

AuthKinds == {"register", "login"}
TaskKinds == {"getTasks", "createTask", "updateTask", "deleteTask"}

\* a connection with no request on it
Idle ==
    [kind |-> "none", pc |-> "idle", hdr |-> {}, body |-> BlankBody,
     param |-> Undefined, user |-> {}, resp |-> <<>>, log |-> <<>>]

\* res.status(status).json({error})
ErrorJson(status, message) ==
    [status |-> status, shape |-> "error", error |-> message, rows |-> {}]

\* res.status(status).json(rows)
Json(status, shape, rows) ==
    [status |-> status, shape |-> shape, error |-> Undefined, rows |-> rows]

\* res.status(400).send('Invalid request'): a text body, no JSON object
invalidRequestText ==
    [status |-> 400, shape |-> "text", error |-> Undefined, rows |-> {}]

\* the fixed error bodies of the controllers
invalidRequest == ErrorJson(400, "Invalid request")
userExists == ErrorJson(409, "User already exists")
authFailed == ErrorJson(400, "Failed to authenticate user")
\* the status the middleware answered with before it was changed to 401
authRequired403 == ErrorJson(403, "Authentication required")
authRequired == ErrorJson(401, "Authentication required")
invalidToken == ErrorJson(401, "Invalid or expired token")

\* the handler sends a response and returns
Respond(q, response, events) ==
    [q EXCEPT !.pc = "done", !.resp = Append(@, response),
              !.log = @ \o events \o <<"res.json">>]

\* the handler suspends at an await
Await(q, pc, events) == [q EXCEPT !.pc = pc, !.log = @ \o events]

\* the whole user row with the token added: {...user, token}
SignedUserWholeRow(u, token) ==
    [id |-> u.id, username |-> u.username, password |-> u.password,
     token |-> token]

\* SignedUser: the projection {id, username, token}
SignedUser(u, token) == [id |-> u.id, username |-> u.username, token |-> token]

\* an `updates` object with no field set
NoPatch == [title |-> Undefined, description |-> Undefined,
            isComplete |-> Undefined]

\* what the last direct call of a service returned: the function, its
\* first argument, the updates passed (updateTaskService only), whether it
\* threw, the rows it resolved to
NoCall == [fn |-> "none", arg |-> Undefined, updates |-> NoPatch,
           threw |-> FALSE, rows |-> {}]

Free(r) == reqs[r].pc = "idle"

\* services/auth.service.ts lines 8-18: the two key files, and the module's
\* privateKey / publicKey before and after the reads at module load
KeyFiles == {"private.pem", "public.pem"}
NoKeys(files) == [files |-> files, privateKey |-> Undefined,
                  publicKey |-> Undefined, status |-> "starting"]
LoadedKeys == [files |-> KeyFiles, privateKey |-> "private.pem",
               publicKey |-> "public.pem", status |-> "listening"]

\* the browser with no Tasks page open
ClosedPage == [token |-> Null, route |-> "/login", tasks |-> {},
               newTaskTitle |-> <<>>, newTaskDescription |-> <<>>,
               effect |-> FALSE, alert |-> "", last |-> "", pending |-> <<>>]

Init ==
    /\ users = {}
    /\ tasks = {}
    /\ nextUid = 1
    /\ nextTid = 1
    /\ now = 0
    /\ procUp = TRUE
    /\ reqs = [r \in ReqIds |-> Idle]
    /\ createdFor = <<>>
    /\ ret = NoCall
    /\ keys = LoadedKeys
    /\ page = ClosedPage

\* app.listen: the server takes the next request on a connection whose last
\* request was answered or abandoned
Accept(r) ==
    /\ procUp
    /\ reqs[r].pc \in {"done", "rejected"}
    /\ reqs' = [reqs EXCEPT ![r] = Idle]
    /\ UNCHANGED <<users, tasks, nextUid, nextTid, now, procUp, createdFor, ret,
                 keys, page>>

-----------------------------------------------------------------------------
(* POST /auth/register *)

\* controllers/auth.controller.ts register, up to its await
RecvRegister(r) ==
    /\ procUp
    /\ Free(r)
    /\ \E u \in Usernames, p \in Passwords :
         LET q == [Idle EXCEPT !.kind = "register",
                               !.body = [BlankBody EXCEPT !.username = u,
                                                          !.password = p]]
         IN reqs' = [reqs EXCEPT ![r] =
                IF registerSchema(q.body)
                THEN Await(q, "reg_find", <<"registerService">>)
                ELSE Respond(q, invalidRequest, <<>>)]
    /\ UNCHANGED <<users, tasks, nextUid, nextTid, now, procUp, createdFor, ret,
                 keys, page>>

\* registerService without its `if (existingUser)` return
RegisterFindNoCheck(r) ==
    /\ procUp
    /\ reqs[r].pc = "reg_find"
    /\ reqs' = [reqs EXCEPT ![r] = Await(@, "reg_create", <<"user.findUnique">>)]
    /\ UNCHANGED <<users, tasks, nextUid, nextTid, now, procUp, createdFor, ret,
                 keys, page>>

\* registerService: prisma.user.findUnique({where: {username}}) answered
RegisterFind(r) ==
    /\ procUp
    /\ reqs[r].pc = "reg_find"
    /\ reqs' = [reqs EXCEPT ![r] =
         IF userFindUnique(users, "username", reqs[r].body.username) # {}
         THEN Respond(@, userExists,
                      <<"user.findUnique">>)
         ELSE Await(@, "reg_create", <<"user.findUnique">>)]
    /\ UNCHANGED <<users, tasks, nextUid, nextTid, now, procUp, createdFor, ret,
                 keys, page>>

\* registerService: bcrypt.hash, prisma.user.create, signJwt; the
\* controller answers 201, or 400 from its catch when create throws
RegisterCreate(r) ==
    /\ procUp
    /\ reqs[r].pc = "reg_create"
    /\ \E salt \in Salts :
         LET q == reqs[r]
             row == userRow(nextUid, q.body.username,
                            bcryptHash(q.body.password, salt))
         IN IF userCreateThrows(users, q.body.username)
            THEN /\ reqs' = [reqs EXCEPT ![r] =
                       Respond(q, invalidRequest,
                               <<"bcrypt.hash", "user.create">>)]
                 /\ UNCHANGED <<users, nextUid, createdFor, ret>>
            ELSE /\ users' = users \cup {row}
                 /\ nextUid' = nextUid + 1
                 /\ reqs' = [reqs EXCEPT ![r] =
                       Respond(q, Json(201, "user",
                                       {SignedUser(row, signJwt(row, now))}),
                               <<"bcrypt.hash", "user.create", "jwt.sign">>)]
    /\ UNCHANGED <<tasks, nextTid, now, procUp, createdFor, ret,
                 keys, page>>

-----------------------------------------------------------------------------
(* POST /auth/login *)

\* controllers/auth.controller.ts authenticate, up to its await
RecvLogin(r) ==
    /\ procUp
    /\ Free(r)
    /\ \E u \in Usernames, p \in Passwords :
         LET q == [Idle EXCEPT !.kind = "login",
                               !.body = [BlankBody EXCEPT !.username = u,
                                                          !.password = p]]
         IN reqs' = [reqs EXCEPT ![r] =
                IF authenticateSchema(q.body)
                THEN Await(q, "auth_find", <<"authService">>)
                ELSE Respond(q, invalidRequest, <<>>)]
    /\ UNCHANGED <<users, tasks, nextUid, nextTid, now, procUp, createdFor, ret,
                 keys, page>>

\* authenticate telling an unknown username (404) from a wrong password
AuthFindLeaky(r) ==
    /\ procUp
    /\ reqs[r].pc = "auth_find"
    /\ LET q == reqs[r]
           found == userFindUnique(users, "username", q.body.username)
       IN reqs' = [reqs EXCEPT ![r] =
            IF found = {}
            THEN Respond(q, ErrorJson(404, "User not found"),
                         <<"user.findUnique">>)
            ELSE LET u == CHOOSE x \in found : TRUE
                 IN IF ~bcryptCompare(q.body.password, u.password)
                    THEN Respond(q, authFailed,
                                 <<"user.findUnique", "bcrypt.compare">>)
                    ELSE Respond(q, Json(200, "user",
                                         {SignedUser(u, signJwt(u, now))}),
                                 <<"user.findUnique", "bcrypt.compare",
                                   "jwt.sign">>)]
    /\ UNCHANGED <<users, tasks, nextUid, nextTid, now, procUp, createdFor, ret,
                 keys, page>>

\* authService: findUnique, bcrypt.compare, signJwt, and the answer
AuthFind(r) ==
    /\ procUp
    /\ reqs[r].pc = "auth_find"
    /\ LET q == reqs[r]
           found == userFindUnique(users, "username", q.body.username)
       IN reqs' = [reqs EXCEPT ![r] =
            IF found = {}
            THEN Respond(q, authFailed,
                         <<"user.findUnique">>)
            ELSE LET u == CHOOSE x \in found : TRUE
                 IN IF ~bcryptCompare(q.body.password, u.password)
                    THEN Respond(q, authFailed,
                                 <<"user.findUnique", "bcrypt.compare">>)
                    ELSE Respond(q, Json(200, "user",
                                         {SignedUser(u, signJwt(u, now))}),
                                 <<"user.findUnique", "bcrypt.compare",
                                   "jwt.sign">>)]
    /\ UNCHANGED <<users, tasks, nextUid, nextTid, now, procUp, createdFor, ret,
                 keys, page>>

-----------------------------------------------------------------------------
(* /tasks: router.use(verifyAuth), then the route's handler *)

\* what a client sends as :id, as body.userId and as body
ParamIds == {"not-a-uuid", GhostTask} \cup {t.id : t \in tasks}
               \cup DOMAIN createdFor

BodyUserIds == {Undefined, GhostUser} \cup {u.id : u \in users}

BodiesFor(kind) ==
    CASE kind = "getTasks" ->
           {[BlankBody EXCEPT !.userId = u] : u \in BodyUserIds}
      [] kind = "createTask" ->
           {[BlankBody EXCEPT !.userId = u, !.title = t, !.description = d] :
              u \in BodyUserIds, t \in Titles, d \in Descriptions}
      [] kind = "updateTask" ->
           {[BlankBody EXCEPT !.title = t, !.description = d, !.isComplete = c] :
              t \in Titles, d \in Descriptions, c \in Flags}
      [] OTHER -> {BlankBody}

ParamsFor(kind) ==
    IF kind \in {"updateTask", "deleteTask"} THEN ParamIds ELSE {Undefined}

\* verifyAuth up to `await verifyJwtService(authHeader)`; jwt.verify runs
\* before the service's first await, and what it throws is caught nowhere:
\* the promise of verifyAuth rejects and nothing is sent
RecvTask(r) ==
    /\ procUp
    /\ Free(r)
    /\ \E kind \in TaskKinds, hdr \in {{}} \cup {{t} : t \in Tokens} :
         LET q == [Idle EXCEPT !.kind = kind, !.hdr = hdr]
         IN reqs' = [reqs EXCEPT ![r] =
              IF hdr = {}
              THEN Respond(q, authRequired, <<>>)
              ELSE IF ~jwtVerify(CHOOSE t \in hdr : TRUE, now)
                   THEN Await(q, "rejected", <<"verifyJwtService", "jwt.verify">>)
                   ELSE Await(q, "verify_find",
                              <<"verifyJwtService", "jwt.verify">>)]
    /\ UNCHANGED <<users, tasks, nextUid, nextTid, now, procUp, createdFor, ret,
                 keys, page>>

\* the rejection no handler caught ends the process where the runtime's
\* unhandled-rejection mode is to throw; where it only warns, this step is
\* never taken and the request stays unanswered
UnhandledRejection(r) ==
    /\ procUp
    /\ reqs[r].pc = "rejected"
    /\ procUp' = FALSE
    /\ UNCHANGED <<users, tasks, nextUid, nextTid, now, reqs, createdFor, ret,
                 keys, page>>

\* getTasks, createTask, updateTask, deleteTask up to their await
getTasks(q) ==
    IF getTasksSchema(q.body)
    THEN Await(q, "getTasksService", <<"getTasksService">>)
    ELSE Respond(q, invalidRequest, <<>>)

createTask(q) ==
    IF createTaskSchema(q.body)
    THEN Await(q, "createTaskService", <<"createTaskService">>)
    ELSE Respond(q, invalidRequest, <<>>)

updateTask(q) ==
    IF updateTaskParamsSchema(q.param) /\ updateTaskSchema(q.body)
    THEN Await(q, "updateTaskService", <<"updateTaskService">>)
    ELSE Respond(q, invalidRequest, <<>>)

deleteTask(q) ==
    IF deleteTaskSchema(q.param)
    THEN Await(q, "deleteTaskService", <<"deleteTaskService">>)
    ELSE Respond(q, invalidRequest, <<>>)

Route(q) ==
    CASE q.kind = "getTasks" -> getTasks(q)
      [] q.kind = "createTask" -> createTask(q)
      [] q.kind = "updateTask" -> updateTask(q)
      [] q.kind = "deleteTask" -> deleteTask(q)

\* verifyJwtService after jwt.verify: findUnique({where: {id: decoded.sub}});
\* then verifyAuth answers 401, or attaches req.user and calls next(), which
\* runs the route's handler up to its first await
VerifyAuthFind(r) ==
    /\ procUp
    /\ reqs[r].pc = "verify_find"
    /\ LET q == reqs[r]
           token == CHOOSE t \in q.hdr : TRUE
           found == userFindUnique(users, "id", token.sub)
       IN IF found = {}
          THEN reqs' = [reqs EXCEPT ![r] =
                 Respond(q, invalidToken,
                         <<"user.findUnique">>)]
          ELSE \E body \in BodiesFor(q.kind), param \in ParamsFor(q.kind) :
                 reqs' = [reqs EXCEPT ![r] =
                   Route([q EXCEPT
                     !.user = {SignedUser(CHOOSE u \in found : TRUE, token)},
                     !.body = body, !.param = param,
                     !.log = @ \o <<"user.findUnique", "req.user", "next">>])]
    /\ UNCHANGED <<users, tasks, nextUid, nextTid, now, procUp, createdFor, ret,
                 keys, page>>

\* getTasks after `await getTasksService(userId)`
GetTasksRun(r) ==
    /\ procUp
    /\ reqs[r].pc = "getTasksService"
    /\ reqs' = [reqs EXCEPT ![r] =
         Respond(@, Json(200, "tasks", getTasksService(tasks, @.body.userId)),
                 <<"task.findMany">>)]
    /\ UNCHANGED <<users, tasks, nextUid, nextTid, now, procUp, createdFor, ret,
                 keys, page>>

\* createTask after `await createTaskService(userId, title, description)`
CreateTaskRun(r) ==
    /\ procUp
    /\ reqs[r].pc = "createTaskService"
    /\ LET q == reqs[r]
           res == createTaskService(users, tasks, nextTid, q.body.userId,
                                    q.body.title, q.body.description)
       IN /\ res.threw \/ nextTid <= MaxTasks
          /\ tasks' = res.tasks
          /\ nextTid' = IF res.threw THEN nextTid ELSE nextTid + 1
          /\ createdFor' = IF res.threw THEN createdFor
                           ELSE createdFor @@ (Uuid("t", nextTid) :> q.body.userId)
          /\ reqs' = [reqs EXCEPT ![r] =
               IF res.threw
               THEN Respond(q, invalidRequest, <<"task.create">>)
               ELSE Respond(q, Json(201, "task", res.rows), <<"task.create">>)]
    /\ UNCHANGED <<users, nextUid, now, procUp, ret,
                 keys, page>>

\* updateTask after `await updateTaskService(taskId, title, description)`:
\* the service has the parameters (taskId, updates), so the title string
\* arrives as `updates` and the description is dropped
UpdateTaskRun(r) ==
    /\ procUp
    /\ reqs[r].pc = "updateTaskService"
    /\ LET q == reqs[r]
           res == updateTaskService(tasks, q.param, JsString(q.body.title))
       IN /\ tasks' = res.tasks
          /\ reqs' = [reqs EXCEPT ![r] =
               IF res.threw
               THEN Respond(q, invalidRequest, <<"task.update">>)
               ELSE Respond(q, Json(200, "task", res.rows), <<"task.update">>)]
    /\ UNCHANGED <<users, nextUid, nextTid, now, procUp, createdFor, ret,
                 keys, page>>

\* deleteTask after `await deleteTaskService(taskId)`
DeleteTaskRun(r) ==
    /\ procUp
    /\ reqs[r].pc = "deleteTaskService"
    /\ LET q == reqs[r]
           res == deleteTaskService(tasks, q.param)
       IN /\ tasks' = res.tasks
          /\ reqs' = [reqs EXCEPT ![r] =
               IF res.threw
               THEN Respond(q, invalidRequest, <<"task.delete">>)
               ELSE Respond(q, Json(200, "task", res.rows), <<"task.delete">>)]
    /\ UNCHANGED <<users, nextUid, nextTid, now, procUp, createdFor, ret,
                 keys, page>>

\* an hour passes
Tick ==
    /\ procUp
    /\ now < MaxTime
    /\ now' = now + 1
    /\ UNCHANGED <<users, tasks, nextUid, nextTid, procUp, reqs, createdFor, ret,
                 keys, page>>

Next ==
    \/ \E r \in ReqIds : Accept(r)
    \/ \E r \in ReqIds : RecvRegister(r)
    \/ \E r \in ReqIds : RegisterFind(r)
    \/ \E r \in ReqIds : RegisterCreate(r)
    \/ \E r \in ReqIds : RecvLogin(r)
    \/ \E r \in ReqIds : AuthFind(r)
    \/ \E r \in ReqIds : RecvTask(r)
    \/ \E r \in ReqIds : UnhandledRejection(r)
    \/ \E r \in ReqIds : VerifyAuthFind(r)
    \/ \E r \in ReqIds : GetTasksRun(r)
    \/ \E r \in ReqIds : CreateTaskRun(r)
    \/ \E r \in ReqIds : UpdateTaskRun(r)
    \/ \E r \in ReqIds : DeleteTaskRun(r)
    \/ Tick

Spec == Init /\ [][Next]_vars

-----------------------------------------------------------------------------
(* The service layer called directly, as tests/services does: no request,   *)
(* no middleware, one call at a time.                                       *)

\* the `updates` objects the model passes
Patches ==
    { [NoPatch EXCEPT !.isComplete = "true"],
      [NoPatch EXCEPT !.title = "Buy eggs", !.description = "a dozen"] }

\* registerService(username, password) run to completion
CallRegister ==
    /\ \E u \in {Ann, Bob}, p \in {GoodPw}, salt \in Salts :
         IF userFindUnique(users, "username", u) # {}
         THEN /\ ret' = [fn |-> "registerService", arg |-> Undefined,
                         updates |-> NoPatch, threw |-> FALSE, rows |-> {}]
              /\ UNCHANGED <<users, nextUid>>
         ELSE LET row == userRow(nextUid, u, bcryptHash(p, salt))
              IN /\ users' = users \cup {row}
                 /\ nextUid' = nextUid + 1
                 /\ ret' = [fn |-> "registerService", arg |-> Undefined,
                            updates |-> NoPatch, threw |-> FALSE,
                            rows |-> {SignedUser(row, signJwt(row, now))}]
    /\ UNCHANGED <<tasks, nextTid, now, procUp, reqs, createdFor,
                 keys, page>>

\* getTasksService(userId)
CallGetTasks ==
    /\ \E u \in BodyUserIds \ {Undefined} :
         ret' = [fn |-> "getTasksService", arg |-> u, updates |-> NoPatch,
                 threw |-> FALSE,
                 rows |-> getTasksService(tasks, u)]
    /\ UNCHANGED <<users, tasks, nextUid, nextTid, now, procUp, reqs, createdFor,
                 keys, page>>

\* createTaskService(userId, title, description?)
CallCreateTask ==
    /\ \E u \in BodyUserIds \ {Undefined}, t \in {"Buy milk"},
          d \in Descriptions :
         LET res == createTaskService(users, tasks, nextTid, u, t, d)
         IN /\ res.threw \/ nextTid <= MaxTasks
            /\ tasks' = res.tasks
            /\ nextTid' = IF res.threw THEN nextTid ELSE nextTid + 1
            /\ createdFor' = IF res.threw THEN createdFor
                             ELSE createdFor @@ (Uuid("t", nextTid) :> u)
            /\ ret' = [fn |-> "createTaskService", arg |-> u, updates |-> NoPatch,
                       threw |-> res.threw, rows |-> res.rows]
    /\ UNCHANGED <<users, nextUid, now, procUp, reqs,
                 keys, page>>

\* updateTaskService(taskId, {title?, description?, isComplete?})
CallUpdateTask ==
    /\ \E id \in ParamIds, o \in Patches :
         LET res == updateTaskService(tasks, id, JsObject(o))
         IN /\ tasks' = res.tasks
            /\ ret' = [fn |-> "updateTaskService", arg |-> id, updates |-> o,
                       threw |-> res.threw, rows |-> res.rows]
    /\ UNCHANGED <<users, nextUid, nextTid, now, procUp, reqs, createdFor,
                 keys, page>>

\* deleteTaskService(taskId)
CallDeleteTask ==
    /\ \E id \in ParamIds :
         LET res == deleteTaskService(tasks, id)
         IN /\ tasks' = res.tasks
            /\ ret' = [fn |-> "deleteTaskService", arg |-> id, updates |-> NoPatch,
                       threw |-> res.threw, rows |-> res.rows]
    /\ UNCHANGED <<users, nextUid, nextTid, now, procUp, reqs, createdFor,
                 keys, page>>

ServiceNext ==
    \/ CallRegister
    \/ CallGetTasks
    \/ CallCreateTask
    \/ CallUpdateTask
    \/ CallDeleteTask

ServiceSpec == Init /\ [][ServiceNext]_vars

-----------------------------------------------------------------------------
(* Two requests in flight at once: every await of one handler is a point    *)
(* where a step of the other can run.  The store is the one left by a       *)
(* registration of Ann and one task created for her; each connection        *)
(* carries one request, a registration or an update with a token that       *)
(* verifies.                                                                *)

Conns == {"r1", "r2"}

AnnRow == userRow(1, Ann, bcryptHash(GoodPw, "salt"))

ConcurrentInit ==
    /\ users = {AnnRow}
    /\ tasks = {taskRow(1, AnnRow.id, "Buy milk", "2 litres")}
    /\ nextUid = 2
    /\ nextTid = 2
    /\ now = 0
    /\ procUp = TRUE
    /\ reqs = [r \in Conns |-> Idle]
    /\ createdFor = (Uuid("t", 1) :> AnnRow.id)
    /\ ret = NoCall
    /\ keys = LoadedKeys
    /\ page = ClosedPage

ConcurrentNext ==
    \/ \E r \in Conns : RecvRegister(r)
    \/ \E r \in Conns : RegisterFind(r)
    \/ \E r \in Conns : RegisterCreate(r)
    \/ \E r \in Conns : /\ RecvTask(r)
                        /\ reqs'[r].kind = "updateTask"
                        /\ reqs'[r].pc = "verify_find"
    \/ \E r \in Conns : VerifyAuthFind(r)
    \/ \E r \in Conns : UpdateTaskRun(r)

ConcurrentSpec == ConcurrentInit /\ [][ConcurrentNext]_vars

-----------------------------------------------------------------------------
(* Process start: the module load of services/auth.service.ts, then         *)
(* app.listen.                                                              *)

\* the catch swallows the error: start-up goes on with whatever was read
LoadKeysLenient ==
    /\ keys.status = "starting"
    /\ keys' = [keys EXCEPT
                  !.privateKey = IF "private.pem" \in keys.files
                                 THEN "private.pem" ELSE Undefined,
                  !.publicKey = IF "public.pem" \in keys.files
                                THEN "public.pem" ELSE Undefined,
                  !.status = "loaded"]
    /\ UNCHANGED <<users, tasks, nextUid, nextTid, now, procUp, reqs,
                   createdFor, ret, page>>

\* services/auth.service.ts lines 12-18: private.pem is read, then
\* public.pem; the first read that fails throws out of the module load
LoadKeys ==
    /\ keys.status = "starting"
    /\ keys' = IF "private.pem" \notin keys.files
                THEN [keys EXCEPT !.status = "failed"]
                ELSE IF "public.pem" \notin keys.files
                THEN [keys EXCEPT !.privateKey = "private.pem",
                                  !.status = "failed"]
                ELSE [keys EXCEPT !.privateKey = "private.pem",
                                  !.publicKey = "public.pem",
                                  !.status = "loaded"]
    /\ UNCHANGED <<users, tasks, nextUid, nextTid, now, procUp, reqs,
                   createdFor, ret, page>>

\* index.ts app.listen, reached only when every import has loaded
Listen ==
    /\ keys.status = "loaded"
    /\ procUp' = TRUE
    /\ keys' = [keys EXCEPT !.status = "listening"]
    /\ UNCHANGED <<users, tasks, nextUid, nextTid, now, reqs, createdFor, ret,
                   page>>

BootInit ==
    /\ users = {}
    /\ tasks = {}
    /\ nextUid = 1
    /\ nextTid = 1
    /\ now = 0
    /\ procUp = FALSE
    /\ reqs = [r \in ReqIds |-> Idle]
    /\ createdFor = <<>>
    /\ ret = NoCall
    /\ keys \in {NoKeys(f) : f \in SUBSET KeyFiles}
    /\ page = ClosedPage

BootNext ==
    \/ LoadKeys
    \/ Listen
    \/ \E r \in ReqIds : Accept(r)
    \/ \E r \in ReqIds : RecvRegister(r)
    \/ \E r \in ReqIds : RegisterFind(r)
    \/ \E r \in ReqIds : RegisterCreate(r)
    \/ \E r \in ReqIds : RecvLogin(r)
    \/ \E r \in ReqIds : AuthFind(r)
    \/ \E r \in ReqIds : RecvTask(r)
    \/ \E r \in ReqIds : UnhandledRejection(r)
    \/ \E r \in ReqIds : VerifyAuthFind(r)
    \/ \E r \in ReqIds : GetTasksRun(r)
    \/ \E r \in ReqIds : CreateTaskRun(r)
    \/ \E r \in ReqIds : UpdateTaskRun(r)
    \/ \E r \in ReqIds : DeleteTaskRun(r)

BootSpec == BootInit /\ [][BootNext]_vars

-----------------------------------------------------------------------------
(* The Tasks page (frontend).  page.token is localStorage's 'token',        *)
(* page.route the router's location, tasks / newTaskTitle /                 *)
(* newTaskDescription the component's state, effect whether the mount       *)
(* effect has yet to run, pending the fetch calls not yet resumed.  The      *)
(* server is the page's environment: it answers with any status.  Text the  *)
(* user types is a sequence of characters.  `last` records which handler    *)
(* navigated to /login last.                                                *)

SessionToken == "jwt"
Whitespace == {" "}
TypedTitles == {<<" ", " ">>, <<" ", "m", " ">>}
TypedDescriptions == {<<"2", "l">>}
TaskLists == {{}, {"t1"}}
Statuses == {200, 401, 500}

\* String.prototype.trim
RECURSIVE trimStart(_)
trimStart(s) ==
    IF s # <<>> /\ Head(s) \in Whitespace THEN trimStart(Tail(s)) ELSE s
RECURSIVE trimEnd(_)
trimEnd(s) ==
    IF s # <<>> /\ s[Len(s)] \in Whitespace
    THEN trimEnd(SubSeq(s, 1, Len(s) - 1)) ELSE s
trim(s) == trimEnd(trimStart(s))

\* a fetch call that has not resolved, and what it can resolve to: a
\* response with a status (data only for GET /tasks answered 200), or a
\* rejection (network failure)
Awaiting == [rejected |-> FALSE, status |-> 0, data |-> {}]
Responses(op) ==
    {[rejected |-> TRUE, status |-> 0, data |-> {}]} \cup
    UNION {{[rejected |-> FALSE, status |-> st, data |-> d] :
               d \in IF op = "fetchTasks" /\ st = 200
                      THEN TaskLists ELSE {{}}} : st \in Statuses}
\* response.ok
ok(resp) == resp.status \in 200..299

Remove(q, i) == SubSeq(q, 1, i - 1) \o SubSeq(q, i + 1, Len(q))

\* navigate(to): leaving /tasks unmounts the component, so the calls it has
\* in flight resume in a closure whose state setters do nothing
navigate(p, to) ==
    [p EXCEPT !.route = to,
              !.pending = [i \in DOMAIN p.pending |->
                              [p.pending[i] EXCEPT !.live = FALSE]]]

\* handleUnauthorized without localStorage.removeItem
handleUnauthorizedKeepToken(p, why) ==
    navigate([p EXCEPT !.last = why], "/login")

\* Tasks.handleUnauthorized
handleUnauthorized(p, why) ==
    navigate([p EXCEPT !.token = Null, !.last = why], "/login")

\* Tasks.handleLogout
handleLogout(p) ==
    navigate([p EXCEPT !.token = Null, !.last = "logout"], "/login")

\* Tasks.fetchTasks up to its await
fetchTasks(p, live) ==
    IF p.token = Null
    THEN handleUnauthorized(p, "no token")
    ELSE [p EXCEPT !.pending = Append(@, [op |-> "fetchTasks", live |-> live,
                                          resp |-> Awaiting])]

serverVars ==
    <<users, tasks, nextUid, nextTid, now, procUp, reqs, createdFor, ret, keys>>

Mounted == page.route = "/tasks" /\ ~page.effect

\* useEffect(() => { fetchTasks(); }, [])
MountEffect ==
    /\ page.route = "/tasks"
    /\ page.effect
    /\ page.token # Null => Len(page.pending) < MaxPending
    /\ page' = fetchTasks([page EXCEPT !.effect = FALSE], TRUE)
    /\ UNCHANGED serverVars

\* onChange of the two text fields
TypeTitle ==
    /\ Mounted
    /\ \E s \in TypedTitles : page' = [page EXCEPT !.newTaskTitle = s]
    /\ UNCHANGED serverVars

TypeDescription ==
    /\ Mounted
    /\ \E s \in TypedDescriptions :
          page' = [page EXCEPT !.newTaskDescription = s]
    /\ UNCHANGED serverVars

\* Tasks.createTask up to its await
CreateTaskSubmit ==
    /\ Mounted
    /\ (trim(page.newTaskTitle) # <<>> /\ page.token # Null)
          => Len(page.pending) < MaxPending
    /\ page' = IF trim(page.newTaskTitle) = <<>>
               THEN [page EXCEPT !.alert = "Task title cannot be empty."]
               ELSE IF page.token = Null
               THEN handleUnauthorized(page, "no token")
               ELSE [page EXCEPT !.pending =
                        Append(@, [op |-> "createTask", live |-> TRUE,
                                   resp |-> Awaiting])]
    /\ UNCHANGED serverVars

\* Tasks.deleteTask up to its await: the button of a task shown
DeleteTaskClick ==
    /\ Mounted
    /\ Len(page.pending) < MaxPending
    /\ \E id \in page.tasks :
          page' = [page EXCEPT !.pending =
                      Append(@, [op |-> "deleteTask", live |-> TRUE,
                                 resp |-> Awaiting])]
    /\ UNCHANGED serverVars

\* Tasks.updateTask up to its await
UpdateTaskClick ==
    /\ Mounted
    /\ Len(page.pending) < MaxPending
    /\ \E id \in page.tasks :
          page' = [page EXCEPT !.pending =
                      Append(@, [op |-> "updateTask", live |-> TRUE,
                                 resp |-> Awaiting])]
    /\ UNCHANGED serverVars

\* the Logout button
LogoutClick ==
    /\ Mounted
    /\ page' = handleLogout(page)
    /\ UNCHANGED serverVars

\* the server answers, or the network fails, the i-th call in flight
Answer(i) ==
    /\ i \in DOMAIN page.pending
    /\ page.pending[i].resp = Awaiting
    /\ \E resp \in Responses(page.pending[i].op) :
          page' = [page EXCEPT !.pending[i].resp = resp]
    /\ UNCHANGED serverVars

\* the rest of fetchTasks / createTask / deleteTask / updateTask after the
\* await
Resume(i) ==
    /\ i \in DOMAIN page.pending
    /\ page.pending[i].resp # Awaiting
    /\ LET q == page.pending[i]
           rest == [page EXCEPT !.pending = Remove(@, i)]
       IN  page' =
             IF q.resp.rejected THEN rest
             ELSE IF q.resp.status = 401 THEN handleUnauthorized(rest, "401")
             ELSE IF ~ok(q.resp) THEN rest
             ELSE IF q.op = "fetchTasks"
             THEN IF q.live THEN [rest EXCEPT !.tasks = q.resp.data] ELSE rest
             ELSE IF q.op = "createTask"
             THEN fetchTasks(IF q.live
                             THEN [rest EXCEPT !.newTaskTitle = <<>>,
                                               !.newTaskDescription = <<>>]
                             ELSE rest, q.live)
             ELSE fetchTasks(rest, q.live)
    /\ UNCHANGED serverVars

\* Register.handleSubmit after a 2xx answer: the token is stored and the
\* router shows a new Tasks component
RegisterDone ==
    /\ page.route = "/login"
    /\ page' = [page EXCEPT !.token = SessionToken, !.route = "/tasks",
                            !.tasks = {}, !.newTaskTitle = <<>>,
                            !.newTaskDescription = <<>>, !.effect = TRUE,
                            !.alert = "", !.last = ""]
    /\ UNCHANGED serverVars

\* localStorage is shared by the tabs of the application: handleLogout in
\* another tab removes the token under this one
OtherTabLogout ==
    /\ page.token # Null
    /\ page' = [page EXCEPT !.token = Null]
    /\ UNCHANGED serverVars

\* the Tasks component rendered with or without a stored token
PageInit ==
    /\ users = {}
    /\ tasks = {}
    /\ nextUid = 1
    /\ nextTid = 1
    /\ now = 0
    /\ procUp = TRUE
    /\ reqs = [r \in ReqIds |-> Idle]
    /\ createdFor = <<>>
    /\ ret = NoCall
    /\ keys = LoadedKeys
    /\ \E tok \in {Null, SessionToken} :
          page = [ClosedPage EXCEPT !.token = tok, !.route = "/tasks",
                                    !.effect = TRUE]

PageNext ==
    \/ MountEffect
    \/ TypeTitle
    \/ TypeDescription
    \/ CreateTaskSubmit
    \/ DeleteTaskClick
    \/ UpdateTaskClick
    \/ LogoutClick
    \/ \E i \in 1..MaxPending : Answer(i)
    \/ \E i \in 1..MaxPending : Resume(i)
    \/ RegisterDone
    \/ OtherTabLogout

PageSpec == PageInit /\ [][PageNext]_vars

-----------------------------------------------------------------------------
(* Properties *)

Has(q, e) == \E i \in 1..Len(q.log) : q.log[i] = e
Times(q, e) == Cardinality({i \in 1..Len(q.log) : q.log[i] = e})

TaskServiceFns == {"getTasksService", "createTaskService",
                   "updateTaskService", "deleteTaskService"}
StoreOps == {"user.findUnique", "user.create", "task.findMany",
             "task.create", "task.update", "task.delete"}

\* C1: a register request that satisfies the schema and finds the username
\* free is answered 201 and adds exactly one user row; one that finds the
\* username taken is answered 409 without hashing or writing; no two user
\* rows ever share a username.
C1_RegisterOnce ==
    /\ [](\A u1, u2 \in users : u1.username = u2.username => u1 = u2)
    /\ [][\A r \in ReqIds :
            LET q == reqs[r]
                q2 == reqs'[r]
                taken == userFindUnique(users, "username", q.body.username) # {}
            IN /\ (q.pc = "reg_find" /\ q2 # q) =>
                    IF taken
                    THEN /\ q2.pc = "done"
                         /\ q2.resp = <<ErrorJson(409, "User already exists")>>
                         /\ ~Has(q2, "bcrypt.hash")
                         /\ ~Has(q2, "user.create")
                         /\ users' = users
                    ELSE /\ q2.pc = "reg_create"
                         /\ users' = users
               /\ (q.pc = "reg_create" /\ q2 # q /\ ~taken) =>
                    /\ q2.pc = "done"
                    /\ Len(q2.resp) = 1
                    /\ q2.resp[1].status = 201
                    /\ registerSchema(q.body)
                    /\ Cardinality(users') = Cardinality(users) + 1
                    /\ Cardinality(userFindUnique(users', "username",
                                                  q.body.username)) = 1]_vars

\* a second registration of a stored username has been answered 409
C1_Witness ==
    \E r \in ReqIds :
       /\ reqs[r].kind = "register"
       /\ reqs[r].pc = "done"
       /\ reqs[r].resp[1].status = 409
       /\ Cardinality(userFindUnique(users, "username",
                                     reqs[r].body.username)) = 1

C3_BadTokenAnswered401 ==
    \A r \in ReqIds :
       (/\ reqs[r].kind \in TaskKinds
        /\ reqs[r].hdr # {}
        /\ reqs[r].pc \notin {"idle", "verify_find"}
        /\ reqs[r].user = {}) =>
          /\ reqs[r].pc = "done"
          /\ reqs[r].resp = <<ErrorJson(401, "Invalid or expired token")>>
          /\ ~Has(reqs[r], "next")

\* C4: within a request a task service function runs only after next(),
\* next() only after jwt.verify, the user lookup and the attaching of
\* req.user, in that order and before any response; the identity attached is
\* the stored user the token names, the token is signed RS256 with the
\* private key; next() is called at most once and never by a request the
\* middleware answered 401.
C4_Gate ==
    \A r \in ReqIds :
       LET q == reqs[r]
           n == Len(q.log)
       IN /\ Times(q, "next") <= 1
          /\ \A i \in 1..n :
                q.log[i] \in TaskServiceFns => \E j \in 1..(i - 1) : q.log[j] = "next"
          /\ \A j \in 1..n :
                q.log[j] = "next" =>
                   /\ \E a, b, c \in 1..(j - 1) :
                         /\ a < b /\ b < c
                         /\ q.log[a] = "jwt.verify"
                         /\ q.log[b] = "user.findUnique"
                         /\ q.log[c] = "req.user"
                   /\ \A k \in 1..(j - 1) : q.log[k] # "res.json"
          /\ Has(q, "next") =>
                \E u \in users, tok \in q.hdr :
                   /\ tok.alg = "RS256"
                   /\ tok.key = "private.pem"
                   /\ tok.sub = u.id
                   /\ q.user = {[id |-> u.id, username |-> u.username,
                                 token |-> tok]}
          /\ (q.resp # <<>> /\ q.resp[1].status = 401) => ~Has(q, "next")

C4_Witness ==
    \E r \in ReqIds :
       /\ reqs[r].pc = "done"
       /\ Has(reqs[r], "createTaskService")
       /\ reqs[r].resp[1].status = 201

\* C5: the owner of a task row created through POST /tasks is the id of the
\* identity the middleware attached to the request.
C5_OwnerIsCaller ==
    \A r \in ReqIds :
       (/\ reqs[r].kind = "createTask"
        /\ reqs[r].pc = "done"
        /\ reqs[r].resp[1].status = 201) =>
          \A t \in reqs[r].resp[1].rows, id \in reqs[r].user : t.userId = id.id

\* C6: GET /tasks that passed the middleware is answered 200 with exactly
\* the stored tasks owned by the attached identity, whatever the body holds.
C6_ListIsCallers ==
    \A r \in ReqIds :
       (/\ reqs[r].kind = "getTasks"
        /\ reqs[r].pc = "done"
        /\ reqs[r].user # {}) =>
          /\ reqs[r].resp[1].status = 200
          /\ \A id \in reqs[r].user :
                reqs[r].resp[1].rows = {t \in tasks : t.userId = id.id}

\* C7: under the service calls, whatever creates, updates and deletes came
\* before, getTasksService(u) resolves to exactly the stored tasks whose
\* userId is u; a stored task that was created for u1 still has owner u1, is
\* in the list of u1 and in the list of no other user.
C7_ListByOwner ==
    /\ (ret.fn = "getTasksService" /\ ~ret.threw) =>
          ret.rows = {t \in tasks : t.userId = ret.arg}
    /\ \A t \in tasks :
          /\ t.id \in DOMAIN createdFor
          /\ t.userId = createdFor[t.id]
          /\ \A u \in BodyUserIds :
                t \in getTasksService(tasks, u) <=> u = createdFor[t.id]

\* a list call returned an updated task of its owner while the table also
\* holds a task of another user
C7_Witness ==
    /\ ret.fn = "getTasksService"
    /\ \E t \in ret.rows : t.isComplete /\ createdFor[t.id] = ret.arg
    /\ \E t \in tasks : t.userId # ret.arg

\* C8: an update or delete by user A of an existing task owned by another
\* user B is answered 200, and the task is changed as asked or removed.
C8_CrossOwnerSucceeds ==
    [][\A r \in ReqIds :
         LET q == reqs[r]
             q2 == reqs'[r]
         IN (/\ q.pc \in {"updateTaskService", "deleteTaskService"}
             /\ q2 # q
             /\ \E t \in tasks : /\ t.id = q.param
                                 /\ \A id \in q.user : t.userId # id.id) =>
               /\ q2.pc = "done"
               /\ q2.resp[1].status = 200
               /\ q.kind = "deleteTask" => ~(\E t \in tasks' : t.id = q.param)
               /\ q.kind = "updateTask" =>
                     \E t \in tasks' : t.id = q.param /\ t.title = q.body.title]_vars

\* C9: a login with the username and password of a registered user is
\* answered 200 with exactly {id, username, token} of that user, where
\* jwt.verify accepts the token at that instant and the user looked up by
\* the token's subject is the registered user.
C9_LoginTokenVerifies ==
    [][\A r \in ReqIds :
         LET q == reqs[r]
             q2 == reqs'[r]
             found == userFindUnique(users, "username", q.body.username)
         IN (/\ q.pc = "auth_find"
             /\ q2 # q
             /\ \E u \in found : bcryptCompare(q.body.password, u.password)) =>
               /\ q2.pc = "done"
               /\ Len(q2.resp) = 1
               /\ q2.resp[1].status = 200
               /\ \E u \in found, row \in q2.resp[1].rows :
                     /\ q2.resp[1].rows = {row}
                     /\ DOMAIN row = {"id", "username", "token"}
                     /\ row.id = u.id
                     /\ row.username = u.username
                     /\ jwtVerify(row.token, now')
                     /\ userFindUnique(users', "id", row.token.sub) = {u}]_vars

\* a registered user has logged in and holds a token that verifies
C9_Witness ==
    \E r \in ReqIds :
       /\ reqs[r].kind = "login"
       /\ reqs[r].pc = "done"
       /\ reqs[r].resp[1].status = 200
       /\ \E row \in reqs[r].resp[1].rows, u \in users :
             /\ jwtVerify(row.token, now)
             /\ row.token.sub = u.id
             /\ u.username = reqs[r].body.username

\* C10: a login that passes the schema and fails, because no user has the
\* username or because the stored hash does not match the password, is
\* answered 400 {error: 'Failed to authenticate user'} in both cases.
C10_LoginFailureUniform ==
    \A r \in ReqIds :
       LET q == reqs[r]
           found == userFindUnique(users, "username", q.body.username)
       IN (/\ q.kind = "login"
           /\ q.pc = "done"
           /\ authenticateSchema(q.body)
           /\ \/ found = {}
              \/ \E u \in found : ~bcryptCompare(q.body.password, u.password)) =>
             q.resp = <<ErrorJson(400, "Failed to authenticate user")>>

\* a login for a stored username with a wrong password has been answered
C10_Witness ==
    \E r \in ReqIds :
       /\ reqs[r].kind = "login"
       /\ reqs[r].pc = "done"
       /\ authenticateSchema(reqs[r].body)
       /\ \E u \in users :
             /\ u.username = reqs[r].body.username
             /\ ~bcryptCompare(reqs[r].body.password, u.password)

\* C11: a task request that carries a token signJwt produced at instant t for
\* a stored user passes jwt.verify when it arrives before t + 1 hour, and the
\* stored user is then resolved from it; arriving at t + 1 hour or later,
\* jwt.verify throws although algorithm and key are the server's, and no
\* identity is attached.
C11_TokenLifetime ==
    [][\A r \in ReqIds :
         LET q == reqs[r]
             q2 == reqs'[r]
             signed(tok) == \E u \in users : tok = signJwt(u, tok.iat)
         IN /\ (/\ q.pc = "idle"
                /\ q2.kind \in TaskKinds
                /\ q2.hdr # {}
                /\ \A tok \in q2.hdr : signed(tok)) =>
                  \A tok \in q2.hdr :
                     IF now < tok.iat + TokenTTL
                     THEN q2.pc = "verify_find"
                     ELSE /\ q2.pc = "rejected"
                          /\ tok.alg = "RS256"
                          /\ tok.key = "private.pem"
                          /\ q2.user = {}
            /\ (/\ q.pc = "verify_find"
                /\ q2 # q
                /\ \A tok \in q.hdr : signed(tok)) =>
                  \E u \in users, tok \in q.hdr :
                     /\ u.id = tok.sub
                     /\ q2.user = {SignedUser(u, tok)}]_vars

\* a token of the server, an hour or more old, has been refused
C11_Witness ==
    \E r \in ReqIds, u \in users :
       /\ reqs[r].kind \in TaskKinds
       /\ reqs[r].pc = "rejected"
       /\ reqs[r].hdr = {signJwt(u, 0)}
       /\ now >= TokenTTL

\* C12: jwt.verify throws for every token whose algorithm is not RS256, the
\* HMAC keyed with the public key included, so such a request never gets an
\* identity or reaches next(); every token the server hands out in a register
\* or login response is RS256, signed with the private key.
C12_OnlyRS256 ==
    \A r \in ReqIds :
       LET q == reqs[r]
       IN /\ (/\ q.kind \in TaskKinds
              /\ q.pc # "idle"
              /\ \E tok \in q.hdr : tok.alg # "RS256") =>
                /\ q.pc = "rejected"
                /\ q.user = {}
                /\ ~Has(q, "next")
                /\ ~Has(q, "user.findUnique")
          /\ (q.kind \in AuthKinds /\ q.pc = "done") =>
                \A row \in q.resp[1].rows :
                   row.token.alg = "RS256" /\ row.token.key = "private.pem"

\* the HS256 token keyed with the public key has been refused
C12_Witness ==
    \E r \in ReqIds : \E tok \in reqs[r].hdr :
       /\ reqs[r].kind \in TaskKinds
       /\ reqs[r].pc = "rejected"
       /\ tok.alg = "HS256"
       /\ tok.key = "public.pem"
       /\ now < tok.exp

\* C13: a create request that passed the middleware and whose title is
\* missing or the empty string is answered 400, and the step that answers it
\* leaves the tasks table as it was.
C13_EmptyTitleRejected ==
    [][\A r \in ReqIds :
         LET q == reqs[r]
             q2 == reqs'[r]
         IN (/\ q2.kind = "createTask"
             /\ q.pc # "done"
             /\ q2.pc = "done"
             /\ q2.user # {}
             /\ q2.body.title \in {Undefined, ""}) =>
               /\ q2.resp[1].status = 400
               /\ tasks' = tasks]_vars

\* C14: a create request that passed the middleware with a non-empty title
\* and no userId in its body is answered 201 with the created task, which
\* has that title.
C14_CreateWithoutUserId ==
    \A r \in ReqIds :
       LET q == reqs[r]
       IN (/\ q.kind = "createTask"
           /\ q.pc = "done"
           /\ q.user # {}
           /\ q.body.userId = Undefined
           /\ q.body.title \notin {Undefined, ""}) =>
             /\ q.resp[1].status = 201
             /\ \E t \in q.resp[1].rows : t.title = q.body.title /\ t \in tasks

\* C15: when updateTaskService(taskId, {isComplete: true}) resolves for a
\* stored task, getTasksService(owner) on the table it leaves shows that
\* task with isComplete true and with the title and description it had.
C15_CompleteRoundTrip ==
    [][(/\ ret'.fn = "updateTaskService"
        /\ ~ret'.threw
        /\ ret'.updates = [NoPatch EXCEPT !.isComplete = "true"]) =>
          /\ \E t \in tasks : t.id = ret'.arg
          /\ \A t \in tasks :
                t.id = ret'.arg =>
                   \E t2 \in getTasksService(tasks', t.userId) :
                      /\ t2.id = t.id
                      /\ t2.isComplete = TRUE
                      /\ t2.title = t.title
                      /\ t2.description = t.description
                      /\ ret'.rows = {t2}]_vars

\* a task with a title and a description has been marked complete
C15_Witness ==
    /\ ret.fn = "updateTaskService"
    /\ ~ret.threw
    /\ ret.updates = [NoPatch EXCEPT !.isComplete = "true"]
    /\ \E t \in getTasksService(tasks, createdFor[ret.arg]) :
          /\ t.id = ret.arg
          /\ t.isComplete
          /\ t.title = "Buy milk"
          /\ t.description = "2 litres"

\* C16: an update request that passed the middleware, names a stored task by
\* its well-formed id and carries a body with isComplete alone is answered
\* 200, and the stored task then has the flag sent.
C16_UpdateOnlyIsComplete ==
    \A r \in ReqIds :
       LET q == reqs[r]
       IN (/\ q.kind = "updateTask"
           /\ q.pc = "done"
           /\ q.user # {}
           /\ \E t \in tasks : t.id = q.param
           /\ q.body.title = Undefined
           /\ q.body.description = Undefined
           /\ q.body.isComplete = "true") =>
             /\ q.resp[1].status = 200
             /\ \E t \in tasks : t.id = q.param /\ t.isComplete

\* C17: an update or delete request that passed the middleware and whose :id
\* is no well-formed UUID is answered 400 'Invalid request', and neither its
\* service function nor prisma's update or delete runs for it.
C17_MalformedIdRejected ==
    \A r \in ReqIds :
       LET q == reqs[r]
       IN (/\ q.kind \in {"updateTask", "deleteTask"}
           /\ Has(q, "next")
           /\ q.param \notin WellFormedIds) =>
             /\ q.pc = "done"
             /\ q.resp = <<ErrorJson(400, "Invalid request")>>
             /\ \A i \in 1..Len(q.log) :
                   q.log[i] \notin {"updateTaskService", "deleteTaskService",
                                    "task.update", "task.delete"}

\* DELETE /tasks/not-a-uuid has been answered while the table held a task
C17_Witness ==
    \E r \in ReqIds :
       /\ reqs[r].kind = "deleteTask"
       /\ reqs[r].pc = "done"
       /\ reqs[r].user # {}
       /\ reqs[r].param = "not-a-uuid"
       /\ tasks # {}

\* C18: when the service of an update or delete request runs for a
\* well-formed id that no stored task has, the request is answered 400 with
\* the store's not-found message in the error field, and the tasks table is
\* left as it was.
C18_NotFoundMessage ==
    [][\A r \in ReqIds :
         LET q == reqs[r]
             q2 == reqs'[r]
         IN (/\ q.pc \in {"updateTaskService", "deleteTaskService"}
             /\ q2 # q
             /\ ~(\E t \in tasks : t.id = q.param)) =>
               /\ q2.pc = "done"
               /\ q2.resp[1].status = 400
               /\ q2.resp[1].error =
                     recordNotFound(IF q.kind = "updateTask" THEN "update"
                                                               ELSE "delete")
               /\ tasks' = tasks]_vars

C20_AnsweredAndAlive ==
    /\ procUp
    /\ \A r \in ReqIds :
          /\ Len(reqs[r].resp) <= 1
          /\ reqs[r].pc = "done" => Len(reqs[r].resp) = 1
          /\ reqs[r].pc # "rejected"

C22_NoHashOutward ==
    \A r \in ReqIds :
       LET q == reqs[r]
           outward == q.user \cup
                      (IF q.kind \in AuthKinds /\ q.resp # <<>>
                       THEN q.resp[1].rows ELSE {})
       IN \A row \in outward :
             /\ DOMAIN row = {"id", "username", "token"}
             /\ "password" \notin DOMAIN row
             /\ \E u \in users : row.id = u.id /\ row.username = u.username
             /\ DOMAIN row.token = {"sub", "alg", "key", "iat", "exp"}

\* a login has been answered with the projection of a stored user
C22_Witness ==
    \E r \in ReqIds :
       /\ reqs[r].kind = "login"
       /\ reqs[r].pc = "done"
       /\ reqs[r].resp[1].status = 200
       /\ \E row \in reqs[r].resp[1].rows, u \in users :
             row.id = u.id /\ u.password.of = reqs[r].body.password

C24_OwnerIsStoredUser ==
    /\ \A t \in tasks : Cardinality({u \in users : u.id = t.userId}) = 1
    /\ \A r \in ReqIds :
          LET q == reqs[r]
          IN (/\ q.kind = "createTask"
              /\ q.pc = "done"
              /\ Has(q, "task.create")
              /\ ~(\E u \in users : u.id = q.body.userId)) =>
                /\ q.resp[1].status = 400
                /\ q.resp[1].rows = {}
                /\ ~(\E t \in tasks : t.userId = q.body.userId)

\* a create for the well-formed id of no user has been refused by the store
C24_Witness ==
    \E r \in ReqIds :
       /\ reqs[r].kind = "createTask"
       /\ reqs[r].pc = "done"
       /\ Has(reqs[r], "task.create")
       /\ reqs[r].body.userId = GhostUser
       /\ reqs[r].resp[1].status = 400

\* C25: for an update request that passed the middleware with a well-formed
\* id and the empty string as title, neither updateTaskService nor prisma's
\* update is ever invoked, and its answer is 400.
C25_EmptyTitleUpdateStopped ==
    \A r \in ReqIds :
       LET q == reqs[r]
       IN (/\ q.kind = "updateTask"
           /\ Has(q, "next")
           /\ q.param \in WellFormedIds
           /\ q.body.title = "") =>
             /\ ~Has(q, "updateTaskService")
             /\ ~Has(q, "task.update")
             /\ q.pc = "done"
             /\ q.resp[1].status = 400

\* C26: when two register requests for one username that was free, both
\* passing the schema, have been answered, one answer is 201, the other is
\* 409, and one user row has that username.
C26_RaceOneCreatedOneConflict ==
    \A r1, r2 \in Conns :
       LET q1 == reqs[r1]
           q2 == reqs[r2]
       IN (/\ r1 # r2
           /\ q1.kind = "register" /\ q2.kind = "register"
           /\ q1.pc = "done" /\ q2.pc = "done"
           /\ registerSchema(q1.body) /\ registerSchema(q2.body)
           /\ q1.body.username = q2.body.username
           /\ q1.body.username # Ann) =>
             /\ {q1.resp[1].status, q2.resp[1].status} = {201, 409}
             /\ Cardinality(userFindUnique(users, "username",
                                           q1.body.username)) = 1

\* C27: when the store write of an update request for a stored task runs
\* while another update request for the same task is in flight or answered,
\* the request is answered 200 and the task then has the title it sent.
C27_ConcurrentUpdatesBothWin ==
    [][\A r1, r2 \in Conns :
         LET q == reqs[r1]
             q2 == reqs'[r1]
             other == reqs[r2]
         IN (/\ r1 # r2
             /\ q.pc = "updateTaskService"
             /\ q2 # q
             /\ \E t \in tasks : t.id = q.param
             /\ other.kind = "updateTask"
             /\ other.pc \in {"updateTaskService", "done"}
             /\ other.param = q.param) =>
               /\ q2.pc = "done"
               /\ q2.resp[1].status = 200
               /\ \E t \in tasks' : t.id = q.param /\ t.title = q.body.title]_vars

\* C28: the step that answers a delete request for a stored task answers 200
\* with that row and removes it and nothing else from the table; a task id
\* that was removed never returns to the table, no list response holds a
\* row that is not stored, and a later update or delete of a removed id is
\* answered 400 and leaves the table as it was.
C28_DeleteFrame ==
    [][\A r \in ReqIds :
         LET q == reqs[r]
             q2 == reqs'[r]
             stored == \E t \in tasks : t.id = q.param
         IN /\ (q.pc = "deleteTaskService" /\ q2 # q /\ stored) =>
                  /\ q2.pc = "done"
                  /\ q2.resp[1].status = 200
                  /\ q2.resp[1].rows = {t \in tasks : t.id = q.param}
                  /\ tasks' = {t \in tasks : t.id # q.param}
            /\ (/\ q.pc \in {"updateTaskService", "deleteTaskService"}
                /\ q2 # q
                /\ q.param \in DOMAIN createdFor
                /\ ~stored) =>
                  /\ q2.pc = "done"
                  /\ q2.resp[1].status = 400
                  /\ tasks' = tasks
            /\ (q.pc = "getTasksService" /\ q2 # q) =>
                  q2.resp[1].rows \subseteq tasks'
            /\ \A id \in DOMAIN createdFor :
                  ~(\E t \in tasks : t.id = id) => ~(\E t \in tasks' : t.id = id)]_vars

\* a second delete of a removed task has been refused while another task is
\* still stored
C28_Witness ==
    \E r \in ReqIds :
       /\ reqs[r].kind = "deleteTask"
       /\ reqs[r].pc = "done"
       /\ reqs[r].resp[1].status = 400
       /\ reqs[r].param \in DOMAIN createdFor
       /\ ~(\E t \in tasks : t.id = reqs[r].param)
       /\ tasks # {}

\* C29: the server listens, and a request makes progress (so a token is
\* signed or verified), only when both private.pem and public.pem were read
\* at the module load; when either file is missing the load fails and the
\* process never listens; once read, privateKey and publicKey keep their
\* value.
C29_KeysLoadedOnce ==
    /\ [](/\ (procUp \/ users # {} \/ \E r \in ReqIds : reqs[r] # Idle)
              => /\ keys.files = KeyFiles
                 /\ keys.privateKey = "private.pem"
                 /\ keys.publicKey = "public.pem"
          /\ (keys.files # KeyFiles /\ keys.status # "starting")
              => keys.status = "failed" /\ ~procUp)
    /\ [][/\ reqs' # reqs => /\ keys.privateKey = "private.pem"
                             /\ keys.publicKey = "public.pem"
          /\ keys.status # "starting"
              => /\ keys'.privateKey = keys.privateKey
                 /\ keys'.publicKey = keys.publicKey
                 /\ keys'.files = keys.files]_vars

\* a login answered with a token by a process that loaded both keys, and
\* the key material still what was read
C29_Witness ==
    /\ keys.status = "listening"
    /\ keys.privateKey = "private.pem"
    /\ keys.publicKey = "public.pem"
    /\ \E r \in ReqIds :
          /\ reqs[r].kind = "login"
          /\ reqs[r].pc = "done"
          /\ reqs[r].resp[1].status = 200

\* a start-up that failed on the missing public.pem after private.pem was
\* read
C29_FailedStart ==
    /\ keys.status = "failed"
    /\ keys.privateKey = "private.pem"
    /\ keys.publicKey = Undefined

C30_NoTokenStart ==
    /\ page.last = "no token"
    /\ page.route = "/login"
    /\ page.tasks # {}

\* the Logout button was used
C30_LoggedOut ==
    /\ page.last = "logout"
    /\ page.route = "/login"
    /\ page.token = Null

\* a blank title submitted with no token stored: the alert, no navigation
C30_BlankTitleNoToken ==
    /\ page.alert # ""
    /\ page.token = Null
    /\ page.route = "/tasks"
    /\ ~page.effect

====
